---- MODULE Spec2Model ----
(***************************************************************************)
(* Model of ve_app.py (KingFoodMart dashboard): the cached load from the   *)
(* document store, the price segmentation, the sidebar filters, the date   *)
(* window recomputation and the segment rollup, as one script run that is  *)
(* re-executed from the top on every interaction.                          *)
(*                                                                         *)
(* Numbers: a quantity or a raw price is kept as an integer count of       *)
(* 1/Scale units, so that fractional values and the two round() calls of   *)
(* the load are modelled by what they do.  Row prices are whole numbers.   *)
(* Dates are <<year, month, day>> triples, the fields of a '%Y-%m-%d' text.*)
(***************************************************************************)
EXTENDS Integers, Sequences, FiniteSets, TLC

\* ------------------------------------------------------------------ bounds
Scale == 2
MaxEntries == 2
MaxWide == 5
MaxTime == 4
TTL == 2

\* ------------------------------------------------------- program constants
PriceFloor == 1000
PriceCeil == 1000000000
FetchCap == 100
StoreCap == 50

VARIABLES
    db,               \* the collection: a sequence of raw product documents
    up,               \* whether the server answers when a step begins
    now,              \* wall clock, in ticks
    conn,             \* st.cache_resource entry of init_connection
    cache,            \* st.cache_data entry of load_data_optimized
    lastLoad,         \* what the last call of load_data_optimized did
    pc,               \* position of the script run
    df,               \* the table of line 297 / 308
    min_date, max_date,
    sel,              \* the sidebar inputs of lines 312-331
    sel_df,           \* filtered_df after line 323
    win_df,           \* filtered_df after line 333
    filtered_df,      \* filtered_df after line 705
    segment_analysis  \* the rollup of line 752

vars == <<db, up, now, conn, cache, lastLoad, pc, df, min_date, max_date,
          sel, sel_df, win_df, filtered_df, segment_analysis>>

\* ------------------------------------------------------------ small helpers
Max2(a, b) == IF a >= b THEN a ELSE b
Min2(a, b) == IF a <= b THEN a ELSE b

Range(s) == {s[i] : i \in 1..Len(s)}

Take(s, n) == SubSeq(s, 1, Min2(n, Len(s)))

RECURSIVE SumSeq(_)
SumSeq(s) == IF s = <<>> THEN 0 ELSE Head(s) + SumSeq(Tail(s))

SumField(rows, field) == SumSeq([i \in 1..Len(rows) |-> rows[i][field]])

\* rounding of n/Scale to a whole number, halves to the even neighbour
\* (Python round(x, 0) and MongoDB $round both round half to even)
RoundHalfEven(n) ==
    LET q == n \div Scale
        r == n % Scale
    IN  IF 2 * r < Scale THEN q
        ELSE IF 2 * r > Scale THEN q + 1
        ELSE IF q % 2 = 0 THEN q ELSE q + 1

\* ------------------------------------------------------------------- dates
DateLE(a, b) ==
    \/ a[1] < b[1]
    \/ a[1] = b[1] /\ a[2] < b[2]
    \/ a[1] = b[1] /\ a[2] = b[2] /\ a[3] <= b[3]

IsLeap(y) == (y % 4 = 0 /\ y % 100 # 0) \/ y % 400 = 0

DaysInMonth(y, m) ==
    IF m = 2 THEN (IF IsLeap(y) THEN 29 ELSE 28)
    ELSE IF m \in {4, 6, 9, 11} THEN 30 ELSE 31

\* datetime.strptime(text, '%Y-%m-%d') succeeds
Parses(t) ==
    /\ t[1] >= 1
    /\ t[2] \in 1..12
    /\ t[3] >= 1 /\ t[3] <= DaysInMonth(t[1], t[2])

MinDate(S) == CHOOSE a \in S : \A b \in S : DateLE(a, b)
MaxDate(S) == CHOOSE a \in S : \A b \in S : DateLE(b, a)

DefaultMin == <<2025, 3, 5>>
DefaultMax == <<2025, 5, 25>>

\* ------------------------------------------------- documents of the source
\* a quantity field of a movement entry: a number (in 1/Scale units), a key
\* that is absent, a null, or a text that is not a number
Num(v) == [t |-> "num", v |-> v]
Absent == [t |-> "absent", v |-> 0]
Null == [t |-> "null", v |-> 0]
Text == [t |-> "str", v |-> 0]

\* a movement entry that is a dict; hasdate says whether it has a 'date' key
Entry(d, dec, inc) ==
    [isdict |-> TRUE, hasdate |-> TRUE, date |-> d,
     stock_decreased |-> dec, stock_increased |-> inc]

NotADate == <<0, 0, 0>>

\* an element of stock_history that is not a dict
NonDict ==
    [isdict |-> FALSE, hasdate |-> FALSE, date |-> NotADate,
     stock_decreased |-> Absent, stock_increased |-> Absent]

D1 == <<2025, 3, 10>>
D2 == <<2025, 4, 1>>
D3 == <<2025, 5, 20>>

\* -------------------------------------------------- load_data_optimized
\* $match of the pipeline, on a raw price in 1/Scale units
MatchPrice(rp) == rp > 0 /\ rp \div Scale < PriceCeil

\* {"$max": [{"$ifNull": ["$$entry.<field>", 0]}, 0]} followed by $sum, which
\* adds numbers and ignores every other value: a text is greater than 0 in
\* the BSON order, survives $max and is then skipped by $sum
MongoTerm(q) ==
    IF q.t = "num" THEN Max2(q.v, 0) ELSE 0

MongoTotal(stock_history, field) ==
    SumSeq([i \in 1..Len(stock_history) |-> MongoTerm(stock_history[i][field])])

\* one document after $match, $project and $addFields
Project(doc) ==
    LET hist == Take(doc.stock_history, FetchCap)
    IN  [id |-> doc.id, name |-> doc.name, category |-> doc.category,
         promotion |-> doc.promotion,
         price |-> RoundHalfEven(doc.price),
         stock_history |-> hist,
         total_sold |-> MongoTotal(hist, "stock_decreased"),
         total_stock_increased |-> MongoTotal(hist, "stock_increased")]

Aggregate(coll) ==
    LET Matches(doc) == MatchPrice(doc.price)
        kept == SelectSeq(coll, Matches)
    IN  [i \in 1..Len(kept) |-> Project(kept[i])]

\* BuildRow without the [:50] of line 134
BuildRow_nocap(product) ==
    LET price == Max2(PriceFloor, product.price)
        total_sold == Max2(0, product.total_sold)
        total_stock_increased == Max2(0, product.total_stock_increased)
    IN  [id |-> product.id, name |-> product.name, category |-> product.category,
         promotion |-> product.promotion,
         price |-> price,
         total_sold |-> RoundHalfEven(total_sold) * Scale,
         revenue |-> RoundHalfEven(price * total_sold) * Scale,
         total_stock_increased |-> RoundHalfEven(total_stock_increased) * Scale,
         stock_revenue |-> RoundHalfEven(price * total_stock_increased) * Scale,
         stock_history |-> product.stock_history,
         segment |-> "",
         quantity_sold |-> 0, stock_remaining |-> 0]

\* the row appended to all_data for one product of the cursor
BuildRow(product) ==
    LET price == Max2(PriceFloor, product.price)
        total_sold == Max2(0, product.total_sold)
        total_stock_increased == Max2(0, product.total_stock_increased)
        stock_history == Take(product.stock_history, StoreCap)
    IN  [id |-> product.id, name |-> product.name, category |-> product.category,
         promotion |-> product.promotion,
         price |-> price,
         total_sold |-> RoundHalfEven(total_sold) * Scale,
         revenue |-> RoundHalfEven(price * total_sold) * Scale,
         total_stock_increased |-> RoundHalfEven(total_stock_increased) * Scale,
         stock_revenue |-> RoundHalfEven(price * total_stock_increased) * Scale,
         stock_history |-> stock_history,
         segment |-> "",
         quantity_sold |-> 0, stock_remaining |-> 0]

\* the dates collected into all_dates from one stored history
EntryDates(stock_history) ==
    {e.date : e \in {x \in Range(stock_history) :
                        x.isdict /\ x.hasdate /\ Parses(x.date)}}

AllDates(rows) == UNION {EntryDates(rows[i].stock_history) : i \in 1..Len(rows)}

EmptyTable == [df |-> <<>>, min_date |-> DefaultMin, max_date |-> DefaultMax]

\* what the body returns when the queries succeed
FetchTable(coll) ==
    LET cursor == Aggregate(coll)
        all_data == [i \in 1..Len(cursor) |-> BuildRow(cursor[i])]
        all_dates == AllDates(all_data)
    IN  [df |-> all_data,
         min_date |-> IF all_dates = {} THEN DefaultMin ELSE MinDate(all_dates),
         max_date |-> IF all_dates = {} THEN DefaultMax ELSE MaxDate(all_dates)]

\* ------------------------------------------------------- segment labels
Thap == "Thap"
TrungBinh == "Trung binh"
Cao == "Cao"
KhongXacDinh == "Khong xac dinh"
TatCa == "Tat ca"
BanHang == "Ban hang"
TonKho == "Ton kho"

\* the labels in the order sorted() and groupby() put them (code points)
LabelOrder == <<Cao, KhongXacDinh, Thap, TrungBinh>>

\* a price that is missing: NaN in the price column of the data frame
NaN == 0 - 1
IsNa(price) == price = NaN

Prices(rows) == [i \in 1..Len(rows) |-> rows[i].price]

\* the prices that quantile(), min(), max() and nunique() see, in ascending
\* order: all of them skip NaN
SortedPrices(rows) ==
    LET Known(price) == ~IsNa(price)
    IN  SortSeq(SelectSeq(Prices(rows), Known), LAMBDA a, b : a < b)

\* Series.quantile(num/den), linear interpolation between the two order
\* statistics around position (n-1)*num/den; the result is multiplied by den
QuantileTimes(sorted, num, den) ==
    LET n == Len(sorted)
        pos == (n - 1) * num
        lo == pos \div den
        fr == pos % den
        hi == IF fr > 0 THEN lo + 1 ELSE lo
    IN  sorted[lo + 1] * den + fr * (sorted[hi + 1] - sorted[lo + 1])

\* ---------------------------------------------- apply_clustering_improved
categorize_price(price, sorted) ==
    IF IsNa(price) THEN KhongXacDinh
    ELSE IF price * 100 <= QuantileTimes(sorted, 33, 100) THEN Thap
    ELSE IF price * 100 <= QuantileTimes(sorted, 67, 100) THEN TrungBinh
    ELSE Cao

apply_clustering_improved(rows) ==
    IF rows = <<>> THEN rows
    ELSE LET sorted == SortedPrices(rows)
             spread == Len(rows) > 1 /\ Cardinality(Range(sorted)) > 1
         IN  [i \in 1..Len(rows) |->
                [rows[i] EXCEPT
                   !.quantity_sold = rows[i].total_sold,
                   !.stock_remaining = rows[i].total_stock_increased,
                   !.segment = IF spread
                               THEN categorize_price(rows[i].price, sorted)
                               ELSE TrungBinh]]

\* --------------------------------------------------- sidebar, lines 312-331
Options(rows, field) ==
    {TatCa} \cup {rows[i][field] : i \in 1..Len(rows)}

Pick(rows, field, choice) ==
    IF choice = TatCa THEN rows
    ELSE LET Same(r) == r[field] = choice IN SelectSeq(rows, Same)

\* ------------------------------------------ filter_by_date_range_optimized
InRange(e, start_date, end_date) ==
    /\ e.isdict /\ e.hasdate /\ Parses(e.date)
    /\ DateLE(start_date, e.date) /\ DateLE(e.date, end_date)

filter_stock_history(stock_history, start_date, end_date) ==
    LET Keep(e) == InRange(e, start_date, end_date)
    IN  SelectSeq(stock_history, Keep)

\* float(x) raises TypeError on None and ValueError on a non-numeric text
FloatRaises(q) == q.t \in {"null", "str"}

\* max(0, float(entry.get(<field>, 0)))
FloatTerm(q) == IF q.t = "num" THEN Max2(0, q.v) ELSE 0

PyTotal(stock_history, field) ==
    SumSeq([i \in 1..Len(stock_history) |->
              IF stock_history[i].isdict
              THEN FloatTerm(stock_history[i][field]) ELSE 0])

MetricsRaise(stock_history) ==
    \E i \in 1..Len(stock_history) :
        /\ stock_history[i].isdict
        /\ \/ FloatRaises(stock_history[i].stock_decreased)
           \/ FloatRaises(stock_history[i].stock_increased)

\* recalculate_metrics writing the window sums into the lifetime columns too
recalculate_metrics_overwrite(row) ==
    LET total_sold == PyTotal(row.stock_history, "stock_decreased")
        total_stock_increased == PyTotal(row.stock_history, "stock_increased")
    IN  [row EXCEPT
           !.total_sold = total_sold,
           !.total_stock_increased = total_stock_increased,
           !.quantity_sold = total_sold,
           !.stock_remaining = total_stock_increased,
           !.revenue = row.price * total_sold,
           !.stock_revenue = row.price * total_stock_increased]

recalculate_metrics(row) ==
    LET total_sold == PyTotal(row.stock_history, "stock_decreased")
        total_stock_increased == PyTotal(row.stock_history, "stock_increased")
    IN  [row EXCEPT
           !.quantity_sold = total_sold,
           !.stock_remaining = total_stock_increased,
           !.revenue = row.price * total_sold,
           !.stock_revenue = row.price * total_stock_increased]

filter_by_date_range_optimized(rows, start_date, end_date) ==
    IF rows = <<>> THEN rows
    ELSE LET cut == [i \in 1..Len(rows) |->
                       [rows[i] EXCEPT !.stock_history =
                          filter_stock_history(@, start_date, end_date)]]
         IN  IF \E i \in 1..Len(cut) : MetricsRaise(cut[i].stock_history)
             THEN rows
             ELSE [i \in 1..Len(cut) |-> recalculate_metrics(cut[i])]

\* ------------------------------------------------ categorize_price_segment
classify_segment(price, p25x4, p75x4) ==
    IF IsNa(price) THEN KhongXacDinh
    ELSE IF price * 4 <= p25x4 THEN Thap
    ELSE IF price * 4 <= p75x4 THEN TrungBinh
    ELSE Cao

\* categorize_price_segment without the min = max test of line 680
categorize_price_segment_nominmax(rows) ==
    IF rows = <<>> \/ SortedPrices(rows) = <<>>
    THEN [i \in 1..Len(rows) |-> [rows[i] EXCEPT !.segment = KhongXacDinh]]
    ELSE LET sorted == SortedPrices(rows)
             price_25th == QuantileTimes(sorted, 1, 4)
             price_75th == QuantileTimes(sorted, 3, 4)
             price_min == sorted[1]
             price_max == sorted[Len(sorted)]
             Tier(price) ==
                 IF price_25th = price_75th
                 THEN IF ~IsNa(price) /\ 2 * price < price_min + price_max
                      THEN Thap
                      ELSE Cao
                 ELSE classify_segment(price, price_25th, price_75th)
         IN  [i \in 1..Len(rows) |->
                [rows[i] EXCEPT !.segment = Tier(rows[i].price)]]

\* categorize_price_segment with the midpoint itself on the low side
categorize_price_segment_midlow(rows) ==
    IF rows = <<>> \/ SortedPrices(rows) = <<>>
    THEN [i \in 1..Len(rows) |-> [rows[i] EXCEPT !.segment = KhongXacDinh]]
    ELSE LET sorted == SortedPrices(rows)
             price_25th == QuantileTimes(sorted, 1, 4)
             price_75th == QuantileTimes(sorted, 3, 4)
             price_min == sorted[1]
             price_max == sorted[Len(sorted)]
             Tier(price) ==
                 IF price_25th = price_75th
                 THEN IF price_min = price_max THEN TrungBinh
                      ELSE IF ~IsNa(price) /\ 2 * price <= price_min + price_max
                           THEN Thap
                      ELSE Cao
                 ELSE classify_segment(price, price_25th, price_75th)
         IN  [i \in 1..Len(rows) |->
                [rows[i] EXCEPT !.segment = Tier(rows[i].price)]]

\* x < price_mid is False for a NaN, which lands in 'Cao'
categorize_price_segment(rows) ==
    IF rows = <<>> \/ SortedPrices(rows) = <<>>
    THEN [i \in 1..Len(rows) |-> [rows[i] EXCEPT !.segment = KhongXacDinh]]
    ELSE LET sorted == SortedPrices(rows)
             price_25th == QuantileTimes(sorted, 1, 4)
             price_75th == QuantileTimes(sorted, 3, 4)
             price_min == sorted[1]
             price_max == sorted[Len(sorted)]
             Tier(price) ==
                 IF price_25th = price_75th
                 THEN IF price_min = price_max THEN TrungBinh
                      ELSE IF ~IsNa(price) /\ 2 * price < price_min + price_max
                           THEN Thap
                      ELSE Cao
                 ELSE classify_segment(price, price_25th, price_75th)
         IN  [i \in 1..Len(rows) |->
                [rows[i] EXCEPT !.segment = Tier(rows[i].price)]]

\* ------------------------------- calculate_segment_analysis(df, display_mode)
\* a percentage n/d; 0 is <<0, 1>>
Pct(part, total) == IF total > 0 THEN <<part * 100, total>> ELSE <<0, 1>>

calculate_segment_analysis(rows, display_mode) ==
    IF rows = <<>> THEN <<>>
    ELSE LET Present(label) == \E i \in 1..Len(rows) : rows[i].segment = label
             keys == SelectSeq(LabelOrder, Present)
             revenue == IF display_mode = BanHang THEN "revenue"
                        ELSE "stock_revenue"
             quantity == IF display_mode = BanHang THEN "quantity_sold"
                         ELSE "stock_remaining"
             Of(label) == Pick(rows, "segment", label)
             total_revenue == SumField(rows, revenue)
             total_quantity == SumField(rows, quantity)
         IN  [k \in 1..Len(keys) |->
                [segment |-> keys[k],
                 revenue |-> SumField(Of(keys[k]), revenue),
                 quantity_sold |-> SumField(Of(keys[k]), quantity),
                 revenue_pct |-> Pct(SumField(Of(keys[k]), revenue), total_revenue),
                 quantity_pct |->
                     Pct(SumField(Of(keys[k]), quantity), total_quantity)]]

\* ------------------------------------------------------ the input domains
Names == <<"sp1", "sp2", "sp3", "sp4", "sp5", "sp6", "sp7">>
Categories == <<"A", "B">>
Promotions == <<"km10", "">>

\* raw prices in 1/Scale units: rejected by $match, below the floor, a whole
\* odd price, and one whose fraction $round removes
RawPrices == {0, 500 * Scale, 2001 * Scale, 3000 * Scale + 1}

EntrySet ==
    { Entry(D1, Num(5 * Scale), Num(2 * Scale)),
      Entry(D2, Num(3 * Scale), Num(0)),
      Entry(NotADate, Num(10 * Scale), Absent),
      Entry(D3, Num(1), Num(0 - Scale)),
      Entry(D2, Null, Text),
      NonDict }

RECURSIVE SeqsUpTo(_, _)
SeqsUpTo(S, n) ==
    IF n = 0 THEN {<<>>}
    ELSE LET shorter == SeqsUpTo(S, n - 1)
         IN  shorter \cup {Append(h, x) : h \in {g \in shorter : Len(g) = n - 1},
                                          x \in S}

Histories == SeqsUpTo(EntrySet, MaxEntries)

RawDoc(price, stock_history) == [price |-> price, stock_history |-> stock_history]

\* the raw prices of the documents of a pair
PairPrices == {500 * Scale, 2001 * Scale}

\* collections of one or two documents that hold up to MaxEntries movement
\* entries between them
RichCatalogs ==
    UNION {
        {<<RawDoc(p, h)>> : p \in RawPrices}
        \cup {<<RawDoc(p, h), RawDoc(p2, h2)>> :
                p \in PairPrices, p2 \in PairPrices,
                h2 \in {g \in Histories : Len(g) + Len(h) <= MaxEntries}}
        : h \in Histories}

\* the prices of the wide collections: the accepted raw prices and one that
\* is the midpoint of the lowest and the highest row price
WidePrices == (RawPrices \ {0}) \cup {2000 * Scale}

\* collections of three to MaxWide documents that differ in price only, in
\* ascending order of price
WideCatalogs ==
    UNION {{c \in [1..n -> {RawDoc(p, <<Entry(D1, Num(Scale), Num(Scale))>>) :
                              p \in WidePrices}] :
               \A i \in 1..(n - 1) : c[i].price <= c[i + 1].price} :
           n \in 3..MaxWide}

\* a history of n entries that tells its first StoreCap entries, the entries
\* up to FetchCap and the entries beyond apart by their date
LongHistory(n) ==
    [k \in 1..n |->
        Entry(IF k <= StoreCap THEN D1 ELSE IF k <= FetchCap THEN D2 ELSE D3,
              Num(Scale), Num(Scale))]

\* collections of one document whose history is as long as, or one longer
\* than, the cap of the load and the cap of the fetch
LongCatalogs ==
    {<<RawDoc(2001 * Scale, LongHistory(n))>> :
        n \in {StoreCap, StoreCap + 1, FetchCap, FetchCap + 1}}

\* collections of one document with at most one movement entry
SmallCatalogs ==
    {r \in RichCatalogs : Len(r) = 1 /\ Len(r[1].stock_history) <= 1}

\* the documents get their position as _id, a name of their own and the
\* categories in turn
WithIds(coll) ==
    [i \in 1..Len(coll) |->
        [id |-> i, name |-> Names[i], category |-> Categories[2 - (i % 2)],
         promotion |-> Promotions[2 - (i % 2)],
         price |-> coll[i].price, stock_history |-> coll[i].stock_history]]

\* tables handed to the two classifiers directly: none to MaxWide rows, with
\* a price that may be missing
TablePrices == {NaN, 1000, 2000, 3000}

TableRow(i, price) ==
    [id |-> i, name |-> Names[i], category |-> Categories[2 - (i % 2)],
     promotion |-> Promotions[2 - (i % 2)],
     price |-> price,
     total_sold |-> 0, revenue |-> 0,
     total_stock_increased |-> 0, stock_revenue |-> 0,
     stock_history |-> <<>>, segment |-> "",
     quantity_sold |-> 0, stock_remaining |-> 0]

Tables ==
    UNION {{[i \in 1..n |-> TableRow(i, f[i])] : f \in [1..n -> TablePrices]} :
              n \in 0..MaxWide}

\* the dates the two date_input widgets are tried with: both ends of the
\* range they allow (min_value, max_value) and the entry dates inside it
WidgetDates == {D1, D2, D3}

DateChoices(lo, hi) ==
    {d \in WidgetDates \cup {lo, hi} : DateLE(lo, d) /\ DateLE(d, hi)}

\* lines 327-328: the values the two date inputs start with
default_start ==
    IF DateLE(<<2025, 3, 5>>, min_date) THEN min_date ELSE <<2025, 3, 5>>
default_end ==
    IF DateLE(max_date, <<2025, 5, 18>>) THEN max_date ELSE <<2025, 5, 18>>

\* st.date_input raises StreamlitAPIException unless
\* min_value <= value <= max_value
date_input_accepts(value) == DateLE(min_date, value) /\ DateLE(value, max_date)

\* -------------------------------------------------------------- the state
NoSel == [category |-> TatCa, segment |-> TatCa, product |-> TatCa,
          display_mode |-> BanHang, start_date |-> DefaultMin,
          end_date |-> DefaultMax]

NoCache == [has |-> FALSE, ts |-> 0, value |-> EmptyTable]
NoLoad == [kind |-> "none", client |-> "none"]

ScriptStart ==
    /\ pc = "start"
    /\ df = <<>> /\ min_date = DefaultMin /\ max_date = DefaultMax
    /\ sel = NoSel /\ sel_df = <<>> /\ win_df = <<>> /\ filtered_df = <<>>
    /\ segment_analysis = <<>>

Init ==
    /\ db \in {WithIds(c) : c \in SmallCatalogs}
    /\ up \in BOOLEAN
    /\ now = 0
    /\ conn = "unset"
    /\ cache = NoCache
    /\ lastLoad = NoLoad
    /\ ScriptStart

InitPipeline ==
    /\ db \in {WithIds(c) : c \in RichCatalogs \cup WideCatalogs \cup LongCatalogs}
    /\ up = TRUE
    /\ now = 0
    /\ conn = "unset"
    /\ cache = NoCache
    /\ lastLoad = NoLoad
    /\ ScriptStart

InitClassify ==
    /\ db = <<>>
    /\ up = TRUE
    /\ now = 0
    /\ conn = "unset"
    /\ cache = NoCache
    /\ lastLoad = NoLoad
    /\ pc = "table"
    /\ df \in Tables
    /\ min_date = DefaultMin /\ max_date = DefaultMax
    /\ sel = NoSel /\ sel_df = <<>> /\ win_df = <<>> /\ filtered_df = <<>>
    /\ segment_analysis = <<>>

\* ------------------------------------------------------------ the actions
\* init_connection behind st.cache_resource: a call without an entry pings
\* the server (line 32) and its return value, a client or None, is the entry
\* every later call gets; a call that does not return stores no entry
init_connection == IF conn = "unset" THEN (IF up THEN "open" ELSE "none") ELSE conn

\* the results the body of load_data_optimized can return with this client.
\* The server calls of lines 58, 62, 72 and 123 come after the ping and each
\* of them blocks: the server may stop or start answering between any two,
\* so with a client both ends are possible whatever up was when the load
\* began.  One call that is not answered raises into the except of line
\* 175; so does a client that an earlier load closed when the installed
\* driver raises InvalidOperation instead of reconnecting.
BodyResults(client) ==
    IF client = "none" THEN {[kind |-> "noclient", value |-> EmptyTable]}
    ELSE {[kind |-> "fetched", value |-> FetchTable(db)],
          [kind |-> "failed", value |-> EmptyTable]}

Fresh == cache.has /\ now - cache.ts < TTL

\* line 297-305: load_data_optimized() through st.cache_data(ttl), then stop
\* the script when the table is empty
Load ==
    /\ pc = "start"
    /\ \E r \in (IF Fresh THEN {[kind |-> "hit", value |-> cache.value]}
                 ELSE BodyResults(init_connection)) :
          /\ lastLoad' = [kind |-> r.kind,
                          client |-> IF Fresh THEN "none" ELSE init_connection]
          /\ conn' = IF Fresh THEN conn
                     ELSE IF init_connection = "none" THEN "none" ELSE "closed"
          /\ cache' = IF Fresh THEN cache
                      ELSE [has |-> TRUE, ts |-> now, value |-> r.value]
          /\ df' = r.value.df
          /\ min_date' = r.value.min_date
          /\ max_date' = r.value.max_date
          /\ pc' = IF r.value.df = <<>> THEN "stopped" ELSE "loaded"
    /\ UNCHANGED <<db, up, now, sel, sel_df, win_df, filtered_df, segment_analysis>>

\* a call of an st element is where the script runner delivers a rerun or
\* stop request: it raises a control exception that no except catches, and
\* the script run ends inside the call of line 297.  Both decorators (lines
\* 13 and 46) keep the default show_spinner, which puts an element on the
\* page when a cached function is entered and clears it after the value has
\* been stored.  Where the request arrives decides what is left behind:
\*  - before anything is stored: the spinner of line 46 or of line 13 being
\*    entered, the replay of the recorded elements on a hit, or st.error of
\*    line 36 after a failed ping, which leaves init_connection before line
\*    39; cache and connection entry stay as they were;
\*  - the spinner of line 13 being cleared: the client, or the None of line
\*    39, is stored; the load is left at line 49, outside the try, so the
\*    client stays open and nothing is cached;
\*  - st.write of lines 59, 69, 78, 164 or st.error of line 176, after the
\*    count of line 58 went through the client: the finally of line 180
\*    closes the client, nothing is cached;
\*  - the spinner of line 46 being cleared: the body has returned and its
\*    value is cached, but line 297 never assigns it
LoadInterrupted ==
    /\ pc = "start"
    /\ \/ /\ lastLoad' = [kind |-> "interrupted", client |-> "none"]
          /\ UNCHANGED <<conn, cache>>
       \/ /\ ~Fresh
          /\ conn = "unset"
          /\ lastLoad' = [kind |-> "interrupted", client |-> "none"]
          /\ conn' = init_connection
          /\ UNCHANGED cache
       \/ /\ ~Fresh
          /\ init_connection # "none"
          /\ lastLoad' = [kind |-> "interrupted", client |-> init_connection]
          /\ conn' = "closed"
          /\ UNCHANGED cache
       \/ /\ ~Fresh
          /\ \E r \in BodyResults(init_connection) :
                cache' = [has |-> TRUE, ts |-> now, value |-> r.value]
          /\ lastLoad' = [kind |-> "interrupted", client |-> init_connection]
          /\ conn' = IF init_connection = "none" THEN "none" ELSE "closed"
    /\ pc' = "interrupted"
    /\ UNCHANGED <<db, up, now, df, min_date, max_date, sel, sel_df,
                   win_df, filtered_df, segment_analysis>>

\* line 308
Cluster ==
    /\ pc = "loaded"
    /\ df' = apply_clustering_improved(df)
    /\ pc' = "clustered"
    /\ UNCHANGED <<db, up, now, conn, cache, lastLoad, min_date, max_date, sel,
                   sel_df, win_df, filtered_df, segment_analysis>>

\* lines 312-752: the selectboxes and the two date inputs, then the date
\* window (333), the second segmentation (705) and the rollup (752)
Render ==
    /\ pc = "clustered"
    /\ date_input_accepts(default_start) /\ date_input_accepts(default_end)
    /\ \E selected_category \in Options(df, "category") :
       LET by_category == Pick(df, "category", selected_category) IN
       \E selected_segment \in Options(by_category, "segment") :
       LET by_segment == Pick(by_category, "segment", selected_segment) IN
       \E selected_product \in Options(by_segment, "name") :
       LET by_product == Pick(by_segment, "name", selected_product) IN
       \E display_mode \in {BanHang, TonKho} :
       \E start_date \in DateChoices(min_date, max_date) \cup {default_start} :
       \E end_date \in DateChoices(min_date, max_date) \cup {default_end} :
       LET windowed == filter_by_date_range_optimized(by_product, start_date, end_date)
           categorized == categorize_price_segment(windowed)
       IN  /\ sel' = [category |-> selected_category,
                      segment |-> selected_segment,
                      product |-> selected_product,
                      display_mode |-> display_mode,
                      start_date |-> start_date, end_date |-> end_date]
           /\ sel_df' = by_product
           /\ win_df' = windowed
           /\ filtered_df' = categorized
           /\ segment_analysis' = calculate_segment_analysis(categorized, display_mode)
    /\ pc' = "done"
    /\ UNCHANGED <<db, up, now, conn, cache, lastLoad, df, min_date, max_date>>

\* lines 330-331: a date input whose starting value is outside the range of
\* the load raises, which ends the script run
RenderRaises ==
    /\ pc = "clustered"
    /\ ~(date_input_accepts(default_start) /\ date_input_accepts(default_end))
    /\ pc' = "raised"
    /\ UNCHANGED <<db, up, now, conn, cache, lastLoad, df, min_date, max_date,
                   sel, sel_df, win_df, filtered_df, segment_analysis>>

\* an interaction re-executes the script from the top
Rerun ==
    /\ pc \in {"done", "stopped", "raised", "interrupted"}
    /\ pc' = "start"
    /\ df' = <<>> /\ min_date' = DefaultMin /\ max_date' = DefaultMax
    /\ sel' = NoSel /\ sel_df' = <<>> /\ win_df' = <<>> /\ filtered_df' = <<>>
    /\ segment_analysis' = <<>>
    /\ UNCHANGED <<db, up, now, conn, cache, lastLoad>>

\* time passes between two runs of the script
Tick ==
    /\ pc = "start"
    /\ now < MaxTime
    /\ now' = now + 1
    /\ UNCHANGED <<db, up, conn, cache, lastLoad, pc, df, min_date, max_date,
                   sel, sel_df, win_df, filtered_df, segment_analysis>>

\* the server becomes unreachable, or reachable again
SourceDown ==
    /\ pc = "start" /\ up
    /\ up' = FALSE
    /\ UNCHANGED <<db, now, conn, cache, lastLoad, pc, df, min_date, max_date,
                   sel, sel_df, win_df, filtered_df, segment_analysis>>

SourceUp ==
    /\ pc = "start" /\ ~up
    /\ up' = TRUE
    /\ UNCHANGED <<db, now, conn, cache, lastLoad, pc, df, min_date, max_date,
                   sel, sel_df, win_df, filtered_df, segment_analysis>>

\* the two classifiers applied to a table, in the order of lines 308 and 705
ClassifyLifetime ==
    /\ pc = "table"
    /\ df' = apply_clustering_improved(df)
    /\ pc' = "table_clustered"
    /\ UNCHANGED <<db, up, now, conn, cache, lastLoad, min_date, max_date, sel,
                   sel_df, win_df, filtered_df, segment_analysis>>

ClassifyFiltered ==
    /\ pc = "table_clustered"
    /\ filtered_df' = categorize_price_segment(df)
    /\ pc' = "table_segmented"
    /\ UNCHANGED <<db, up, now, conn, cache, lastLoad, df, min_date, max_date,
                   sel, sel_df, win_df, segment_analysis>>

NextClassify ==
    \/ ClassifyLifetime \/ ClassifyFiltered

NextPipeline ==
    \/ Load \/ Cluster \/ Render \/ RenderRaises

Next ==
    \/ Load \/ LoadInterrupted \/ Cluster \/ Render \/ RenderRaises \/ Rerun
    \/ Tick \/ SourceDown \/ SourceUp

Spec == Init /\ [][Next]_vars

SpecPipeline == InitPipeline /\ [][NextPipeline]_vars

SpecClassify == InitClassify /\ [][NextClassify]_vars

\* ------------------------------------------------------------- the claims
\* what the claims say of a movement list, stated apart from the code
ValidEntry(e) == e.isdict /\ e.hasdate /\ Parses(e.date)

KeptEntries(h, start_date, end_date) ==
    LET Keep(e) == /\ ValidEntry(e)
                   /\ DateLE(start_date, e.date) /\ DateLE(e.date, end_date)
    IN  SelectSeq(h, Keep)

FloorAtZero(q) == IF q.t = "num" /\ q.v > 0 THEN q.v ELSE 0
SoldOf(h) == SumSeq([i \in 1..Len(h) |-> FloorAtZero(h[i].stock_decreased)])
StockOf(h) == SumSeq([i \in 1..Len(h) |-> FloorAtZero(h[i].stock_increased)])

\* the row of the clustered lifetime table with the id of row r
Lifetime(r) == df[CHOOSE i \in 1..Len(df) : df[i].id = r.id]

FullWindow == sel.start_date = min_date /\ sel.end_date = max_date

\* C1: over the full date range [min_date, max_date] of the load, the window
\* recomputation gives every product its lifetime total_sold,
\* total_stock_increased, revenue and stock_revenue back
C1_FullWindowEqualsLifetime ==
    (pc = "done" /\ FullWindow) =>
        \A i \in 1..Len(win_df) :
            /\ win_df[i].quantity_sold = Lifetime(win_df[i]).total_sold
            /\ win_df[i].stock_remaining = Lifetime(win_df[i]).total_stock_increased
            /\ win_df[i].revenue = Lifetime(win_df[i]).revenue
            /\ win_df[i].stock_revenue = Lifetime(win_df[i]).stock_revenue

\* C2: the segment of every product in the table handed to the rollup is the
\* segment the classification over the full loaded set gave that product
C2_SegmentFromLifetimeSet ==
    pc = "done" =>
        \A i \in 1..Len(filtered_df) :
            filtered_df[i].segment = Lifetime(filtered_df[i]).segment

\* the entries of row i of the table before the window that fall in the range
CutOf(i) == KeptEntries(sel_df[i].stock_history, sel.start_date, sel.end_date)

\* recomputing row i fails: an entry in range holds a null or a text where a
\* number is expected
FailsOn(i) ==
    \E k \in 1..Len(CutOf(i)) :
        \/ CutOf(i)[k].stock_decreased.t \in {"null", "str"}
        \/ CutOf(i)[k].stock_increased.t \in {"null", "str"}

\* row i of the windowed table holds the entries in range and the four
\* metrics recomputed from them
Recomputed(i) ==
    /\ win_df[i].stock_history = CutOf(i)
    /\ win_df[i].quantity_sold = SoldOf(CutOf(i))
    /\ win_df[i].stock_remaining = StockOf(CutOf(i))
    /\ win_df[i].revenue = win_df[i].price * SoldOf(CutOf(i))
    /\ win_df[i].stock_revenue = win_df[i].price * StockOf(CutOf(i))

\* C3: when recomputing one row fails, only that row keeps its pre-filter
\* values; every other row is filtered to the range and recomputed
C3_OnlyFailingRowFallsBack ==
    (pc = "done" /\ \E j \in 1..Len(sel_df) : FailsOn(j)) =>
        /\ Len(win_df) = Len(sel_df)
        /\ \A i \in 1..Len(sel_df) :
              IF FailsOn(i) THEN win_df[i] = sel_df[i] ELSE Recomputed(i)

Tiers == <<Thap, TrungBinh, Cao>>

TierRank(label) == CHOOSE k \in 1..3 : Tiers[k] = label

\* C4: the rollup has exactly three rows, one for each of the tiers Thap,
\* Trung binh and Cao, whatever tiers the product set holds
C4_RollupHasThreeTiers ==
    pc = "done" =>
        /\ Len(segment_analysis) = 3
        /\ {segment_analysis[k].segment : k \in 1..Len(segment_analysis)}
              = Range(Tiers)

\* C5: the rows of the rollup come in the order Thap, Trung binh, Cao
C5_RollupInTierOrder ==
    pc = "done" =>
        \A j, k \in 1..Len(segment_analysis) :
            (/\ j < k
             /\ segment_analysis[j].segment \in Range(Tiers)
             /\ segment_analysis[k].segment \in Range(Tiers))
            => TierRank(segment_analysis[j].segment)
                  < TierRank(segment_analysis[k].segment)

\* the fetched entries of the document of row r that are dicts with a date
\* that parses
ValidFetched(r) ==
    SelectSeq(Take(db[r.id].stock_history, FetchCap), ValidEntry)

\* C6: the load drops a movement entry whose date does not parse or that is
\* not a dict: it is not in the stored list and adds nothing to total_sold or
\* total_stock_increased, while the valid entries of the product are kept
\* and summed
C6_BadEntriesDropped ==
    pc = "loaded" =>
        \A i \in 1..Len(df) :
            /\ df[i].stock_history = Take(ValidFetched(df[i]), StoreCap)
            /\ df[i].total_sold = RoundHalfEven(SoldOf(ValidFetched(df[i]))) * Scale
            /\ df[i].total_stock_increased
                  = RoundHalfEven(StockOf(ValidFetched(df[i]))) * Scale

\* C7: a load within TTL of the fetch behind the cached snapshot does not
\* query the source and leaves the cached snapshot in place, and when it
\* returns it returns that snapshot; the first load after TTL has elapsed,
\* with the source reachable, queries the source again and, when the queries
\* are answered, caches the table it fetched
C7_TtlCachePolicy ==
    [][(pc = "start" /\ pc' # "start" /\ cache.has) =>
          IF now - cache.ts < TTL
          THEN /\ lastLoad' \in {[kind |-> "hit", client |-> "none"],
                                 [kind |-> "interrupted", client |-> "none"]}
               /\ cache' = cache
               /\ lastLoad'.kind = "hit" => df' = cache.value.df
          ELSE up =>
               /\ lastLoad'.kind \in {"fetched", "failed", "interrupted"}
               /\ lastLoad'.kind = "fetched" =>
                     /\ cache' = [has |-> TRUE, ts |-> now,
                                  value |-> FetchTable(db)]
                     /\ df' = FetchTable(db).df]_vars

\* C8: for every product the window keeps exactly the entries with
\* start <= date <= end and sets the four metrics from those entries only,
\* never from the lifetime totals; with no entry in range they are all 0.
\* Stated for the rows whose own entries in range are all numeric.
C8_WindowRecomputesFromKept ==
    pc = "done" =>
        /\ Len(win_df) = Len(sel_df)
        /\ \A i \in 1..Len(sel_df) :
              ~FailsOn(i) =>
                  /\ Recomputed(i)
                  /\ CutOf(i) = <<>> =>
                        /\ win_df[i].quantity_sold = 0
                        /\ win_df[i].stock_remaining = 0
                        /\ win_df[i].revenue = 0
                        /\ win_df[i].stock_revenue = 0

\* C9: each window-recomputed metric is at most the lifetime figure of the
\* same product
C9_WindowAtMostLifetime ==
    pc = "done" =>
        \A i \in 1..Len(win_df) :
            /\ win_df[i].quantity_sold <= Lifetime(win_df[i]).total_sold
            /\ win_df[i].stock_remaining <= Lifetime(win_df[i]).total_stock_increased
            /\ win_df[i].revenue <= Lifetime(win_df[i]).revenue
            /\ win_df[i].stock_revenue <= Lifetime(win_df[i]).stock_revenue

\* the tier the 25th and 75th percentile of the prices of rows give a price
QuartileTier(price, rows) ==
    LET sorted == SortSeq([i \in 1..Len(rows) |-> rows[i].price],
                          LAMBDA a, b : a < b)
        p25x4 == QuantileTimes(sorted, 1, 4)
        p75x4 == QuantileTimes(sorted, 3, 4)
    IN  IF 4 * price <= p25x4 THEN Thap
        ELSE IF 4 * price <= p75x4 THEN TrungBinh ELSE Cao

QuartilesDistinct(rows) ==
    LET sorted == SortSeq([i \in 1..Len(rows) |-> rows[i].price],
                          LAMBDA a, b : a < b)
    IN  QuantileTimes(sorted, 1, 4) # QuantileTimes(sorted, 3, 4)

FollowsQuartiles(rows) ==
    (rows # <<>> /\ QuartilesDistinct(rows)) =>
        \A i \in 1..Len(rows) : rows[i].segment = QuartileTier(rows[i].price, rows)

\* C10: with distinct 25th and 75th percentiles every tier the system
\* assigns follows them, the tiers offered in the segment selector (over the
\* loaded set) as well as the tiers of the table handed to the rollup
C10_TiersFollowQuartiles ==
    /\ pc \in {"clustered", "done"} => FollowsQuartiles(df)
    /\ pc = "done" => FollowsQuartiles(filtered_df)

\* the 25th and 75th percentile of the prices of rows coincide while the
\* lowest and the highest price differ
QuartilesCollapsed(rows) ==
    /\ rows # <<>>
    /\ ~QuartilesDistinct(rows)
    /\ \E i, j \in 1..Len(rows) : rows[i].price # rows[j].price

LowestPrice(rows) ==
    CHOOSE p \in Range(Prices(rows)) : \A q \in Range(Prices(rows)) : p <= q
HighestPrice(rows) ==
    CHOOSE p \in Range(Prices(rows)) : \A q \in Range(Prices(rows)) : p >= q

\* C11: when the 25th and 75th percentile of the prices are equal and the
\* lowest and highest price differ, a product priced below the midpoint
\* (min + max) / 2 is Thap, a product priced at or above it is Cao, and no
\* product is Trung binh
C11_MidpointSplit ==
    (pc = "done" /\ QuartilesCollapsed(filtered_df)) =>
        \A i \in 1..Len(filtered_df) :
            /\ 2 * filtered_df[i].price
                   < LowestPrice(filtered_df) + HighestPrice(filtered_df)
                 => filtered_df[i].segment = Thap
            /\ 2 * filtered_df[i].price
                   >= LowestPrice(filtered_df) + HighestPrice(filtered_df)
                 => filtered_df[i].segment = Cao
            /\ filtered_df[i].segment # TrungBinh

\* a product set with collapsed percentiles that holds a price below, a price
\* at and a price above the midpoint has been classified
C11_Witness ==
    /\ pc = "done" /\ QuartilesCollapsed(filtered_df)
    /\ \E i, j, k \in 1..Len(filtered_df) :
          /\ 2 * filtered_df[i].price
                 < LowestPrice(filtered_df) + HighestPrice(filtered_df)
          /\ 2 * filtered_df[j].price
                 = LowestPrice(filtered_df) + HighestPrice(filtered_df)
          /\ filtered_df[k].price = HighestPrice(filtered_df)
          /\ filtered_df[j].segment = Cao /\ filtered_df[i].segment = Thap

\* every row of rows carries one of the four labels
Labelled(rows) ==
    \A i \in 1..Len(rows) :
        rows[i].segment \in {Thap, TrungBinh, Cao, KhongXacDinh}

\* rows is a single product or products of one price, the price being known
OnePrice(rows) ==
    /\ rows # <<>>
    /\ \A i, j \in 1..Len(rows) :
          rows[i].price # NaN /\ rows[i].price = rows[j].price

AllMedium(rows) == \A i \in 1..Len(rows) : rows[i].segment = TrungBinh

\* C12: both classifiers return a table of the same products for an empty
\* set, a single product, products of one price and products whose price
\* is missing (none of them raises); a single product or products of one
\* price are all Trung binh, and in every non-empty result every segment is
\* one of Thap, Trung binh, Cao, Khong xac dinh
C12_ClassifierTotal ==
    /\ pc \in {"table_clustered", "table_segmented"} =>
          /\ Labelled(df)
          /\ OnePrice(df) => AllMedium(df)
    /\ pc = "table_segmented" =>
          /\ Len(filtered_df) = Len(df)
          /\ \A i \in 1..Len(df) : filtered_df[i].id = df[i].id
          /\ Labelled(filtered_df)
          /\ OnePrice(df) => AllMedium(filtered_df)

\* two or more products of one price went through both classifiers
C12_Witness ==
    /\ pc = "table_segmented"
    /\ Len(df) >= 2 /\ OnePrice(df)
    /\ AllMedium(df) /\ AllMedium(filtered_df)

\* a percentage n/d has at most one decimal
OneDecimal(pct) == (pct[1] * 10) % pct[2] = 0

\* the sum of the percentages of the rollup rows, times 10 * total
PctSumGap(field, total) ==
    LET sum == SumSeq([k \in 1..Len(segment_analysis) |->
                          segment_analysis[k][field][1]])
        gap == sum - 100 * total
    IN  IF gap >= 0 THEN gap * 10 ELSE (0 - gap) * 10

\* C13: in the rollup every revenue_pct and quantity_pct is the share of the
\* total times 100 rounded to one decimal; the revenue_pct of the rows sum
\* to 100 within 0.1 when the total revenue is positive, and a percentage
\* is 0 when its total is 0
C13_PercentagesRounded ==
    pc = "done" =>
        LET total_revenue == SumField(segment_analysis, "revenue")
            total_quantity == SumField(segment_analysis, "quantity_sold")
        IN  /\ \A k \in 1..Len(segment_analysis) :
                  /\ OneDecimal(segment_analysis[k].revenue_pct)
                  /\ OneDecimal(segment_analysis[k].quantity_pct)
                  /\ total_revenue = 0 =>
                        segment_analysis[k].revenue_pct[1] = 0
                  /\ total_quantity = 0 =>
                        segment_analysis[k].quantity_pct[1] = 0
            /\ total_revenue > 0 =>
                  PctSumGap("revenue_pct", total_revenue) <= total_revenue

\* the entries the fetch returns for the document of row r: the first 100
FetchedOf(r) == Take(db[r.id].stock_history, 100)

\* the bounds every product row keeps
RowBounds(r) ==
    /\ r.price >= 1000
    /\ r.total_sold >= 0 /\ r.total_stock_increased >= 0
    /\ r.revenue >= 0 /\ r.stock_revenue >= 0
    /\ Len(r.stock_history) <= 50

\* C14: after the load and after a window recomputation every product row
\* has price >= 1000, total_sold, total_stock_increased, revenue and
\* stock_revenue >= 0 and at most 50 movement entries, and the movement list
\* the load stored is exactly the first min(50, n) of the n <= 100 entries
\* fetched for the product, in source order
C14_RowBounds ==
    /\ pc \in {"loaded", "clustered", "done"} =>
          \A i \in 1..Len(df) :
              /\ RowBounds(df[i])
              /\ Len(FetchedOf(df[i])) <= 100
              /\ df[i].stock_history
                    = SubSeq(FetchedOf(df[i]), 1, Min2(50, Len(FetchedOf(df[i]))))
    /\ pc = "done" =>
          \A i \in 1..Len(win_df) : RowBounds(win_df[i])

\* a product with more than 100 entries was loaded and windowed
C14_WitnessLong ==
    /\ pc = "done"
    /\ \E i \in 1..Len(df) :
          /\ Len(db[df[i].id].stock_history) > 100
          /\ Len(df[i].stock_history) = 50
    /\ Len(win_df) > 0 /\ win_df[1].quantity_sold > 0

\* C15: the lifetime total_sold of a product row is the sum of
\* max(0, stock_decreased) over the entries of the row's own movement list
\* (rounded to a whole number, as the data model has it), and
\* total_stock_increased the sum of max(0, stock_increased) over the same
\* list; a negative or missing value adds zero and both totals are >= 0
C15_TotalsFromStoredList ==
    pc \in {"loaded", "clustered", "done"} =>
        \A i \in 1..Len(df) :
            /\ df[i].total_sold
                  = RoundHalfEven(SoldOf(df[i].stock_history)) * Scale
            /\ df[i].total_stock_increased
                  = RoundHalfEven(StockOf(df[i].stock_history)) * Scale
            /\ df[i].total_sold >= 0 /\ df[i].total_stock_increased >= 0

\* the columns the window recomputation hands on as they are
SameLifetimeColumns(out, in) ==
    /\ out.id = in.id /\ out.name = in.name /\ out.category = in.category
    /\ out.price = in.price /\ out.promotion = in.promotion
    /\ out.segment = in.segment
    /\ out.total_sold = in.total_sold
    /\ out.total_stock_increased = in.total_stock_increased

\* C16: the step that runs the window recomputation leaves the lifetime
\* table and the cached snapshot as they were, and every returned row has
\* the id, name, category, price, promotion, segment, total_sold and
\* total_stock_increased of the input row it was made from
C16_WindowKeepsSnapshot ==
    [][(pc = "clustered" /\ pc' = "done") =>
          /\ df' = df
          /\ cache' = cache
          /\ Len(win_df') = Len(sel_df')
          /\ \A i \in 1..Len(sel_df') :
                /\ \E j \in 1..Len(df) : sel_df'[i] = df[j]
                /\ SameLifetimeColumns(win_df'[i], sel_df'[i])]_vars

\* a window that cut entries away and changed the metrics of a product
C16_Witness ==
    /\ pc = "done"
    /\ \E i \in 1..Len(win_df) :
          /\ Len(win_df[i].stock_history) < Len(sel_df[i].stock_history)
          /\ win_df[i].quantity_sold < sel_df[i].quantity_sold
          /\ sel_df[i] = Lifetime(sel_df[i])

\* C17: a load that queries the data source does so through an open
\* connection, never through the cached client an earlier load has closed
\* (a load that ended before its first query names no client)
C17_QueriesUseOpenClient ==
    (\/ lastLoad.kind \in {"fetched", "failed"}
     \/ lastLoad.kind = "interrupted" /\ lastLoad.client # "none") =>
        lastLoad.client = "open"

\* C18: after a connection attempt has failed and its load has returned the
\* fallback, a load made once the TTL of the cached fallback has expired and
\* the source is reachable again, and that runs to its end, makes a new
\* connection and, when its queries are answered, returns the table of the
\* source, not the empty fallback table with the default date range
C18_FailedLoadRecovers ==
    [][(/\ pc = "start" /\ pc' # "start"
        /\ conn = "none" /\ cache.has /\ now - cache.ts >= TTL /\ up
        /\ lastLoad'.kind # "interrupted") =>
          /\ lastLoad'.client = "open"
          /\ lastLoad'.kind \in {"fetched", "failed"}
          /\ lastLoad'.kind = "fetched" =>
                /\ df' = FetchTable(db).df
                /\ min_date' = FetchTable(db).min_date
                /\ max_date' = FetchTable(db).max_date]_vars

\* C19: for the (min_date, max_date) of a load, the values the two date
\* inputs start with satisfy min_date <= default_start <= default_end <=
\* max_date
C19_DefaultWindowInRange ==
    pc \in {"loaded", "clustered"} =>
        /\ DateLE(min_date, default_start)
        /\ DateLE(default_start, default_end)
        /\ DateLE(default_end, max_date)

====
